---- MODULE Spec2Model ----
(***************************************************************************)
(* Model of renew_ip.py: detection of interfaces that carry two IPv4       *)
(* addresses and the rewrite of their systemd-networkd configuration.      *)
(*                                                                         *)
(* Text is a sequence of tokens.  A token is one character ("9", ".", "/", *)
(* "=", " ", "#", "\n") or one of the words Address, Gateway, Table, From, *)
(* each standing for that run of letters.  The listing returned by         *)
(* `ip -4 -o a` is kept as the sequence of its lines, each line being the  *)
(* sequence of its whitespace-delimited words (line.split()).              *)
(***************************************************************************)
EXTENDS Integers, Sequences, FiniteSets, TLC

VARIABLES
    listing,                \* stdout of `ip -4 -o a`: lines of words
    files,                  \* /etc/systemd/network/<name>.network -> text
    pcMain,                 \* where main() is
    exc,                    \* the exception main() raised, "" if none
    idx,                    \* double_interface_generator: next line to read
    processed_interfaces,   \* double_interface_generator: name -> addresses
    coroutines,             \* main: the change_config(...) coroutines
    warnings,               \* names logged by logging.warning, in order
    tasks,                  \* the tasks asyncio.gather runs, one per coroutine
    loop,                   \* the event loop of asyncio.run: running / closed
    runs,                   \* how often the program has been started
    history,                \* what every finished run started from and did
    call,                   \* a direct call of one pure function
    ret                     \* what that call returned

vars == <<listing, files, pcMain, exc, idx, processed_interfaces, coroutines,
          warnings, tasks, loop, runs, history, call, ret>>

runVars == <<listing, files, pcMain, exc, idx, processed_interfaces,
             coroutines, warnings, tasks, loop, runs, history>>

----------------------------------------------------------------------------
(* Bounds *)

MaxLines == 4       \* lines of a listing
MaxRuns == 2        \* consecutive starts of the program
MaxCfgLines == 2    \* lines of a generated configuration file
MaxDocLen == 4      \* tokens of a document handed to rewrite_config_str

----------------------------------------------------------------------------
(* str methods *)

NL == "\n"

\* s.startswith(p)
StartsWith(s, p) == Len(s) >= Len(p) /\ SubSeq(s, 1, Len(p)) = p

\* s.split(sep) for a one-character separator: every segment, empty ones too
RECURSIVE Split(_, _)
Split(s, sep) ==
    IF \A i \in 1..Len(s) : s[i] # sep
    THEN <<s>>
    ELSE LET i == CHOOSE k \in 1..Len(s) :
                     s[k] = sep /\ \A j \in 1..(k - 1) : s[j] # sep
         IN  <<SubSeq(s, 1, i - 1)>> \o Split(SubSeq(s, i + 1, Len(s)), sep)

\* s.splitlines(): the segments between line breaks; a final empty segment
\* (the text is empty or ends with a line break) is no line
SplitLines(s) ==
    LET segs == Split(s, NL)
    IN  IF segs[Len(segs)] = <<>> THEN SubSeq(segs, 1, Len(segs) - 1) ELSE segs

\* sep.join(parts)
RECURSIVE Join(_, _)
Join(parts, sep) ==
    IF parts = <<>> THEN <<>>
    ELSE IF Len(parts) = 1 THEN parts[1]
    ELSE parts[1] \o sep \o Join(Tail(parts), sep)

\* s.strip()
RECURSIVE LStrip(_)
LStrip(s) == IF s # <<>> /\ Head(s) \in {" ", NL} THEN LStrip(Tail(s)) ELSE s

RECURSIVE RStrip(_)
RStrip(s) ==
    IF s # <<>> /\ s[Len(s)] \in {" ", NL}
    THEN RStrip(SubSeq(s, 1, Len(s) - 1)) ELSE s

Strip(s) == RStrip(LStrip(s))

Digit == [c \in {"0", "1", "2", "3", "4", "5", "6", "7", "8", "9"} |->
            CASE c = "0" -> 0 [] c = "1" -> 1 [] c = "2" -> 2 [] c = "3" -> 3
              [] c = "4" -> 4 [] c = "5" -> 5 [] c = "6" -> 6 [] c = "7" -> 7
              [] c = "8" -> 8 [] c = "9" -> 9]

DigitChar == <<"0", "1", "2", "3", "4", "5", "6", "7", "8", "9">>

\* int(s) raises ValueError unless s is a decimal literal
IsInt(s) == s # <<>> /\ \A i \in 1..Len(s) : s[i] \in DOMAIN Digit

\* int(s)
RECURSIVE ParseInt(_)
ParseInt(s) ==
    IF s = <<>> THEN 0
    ELSE 10 * ParseInt(SubSeq(s, 1, Len(s) - 1)) + Digit[s[Len(s)]]

\* f"{n}" for n >= 0
RECURSIVE Str(_)
Str(n) == IF n < 10 THEN <<DigitChar[n + 1]>>
          ELSE Str(n \div 10) \o <<DigitChar[(n % 10) + 1]>>

----------------------------------------------------------------------------
(* The pure functions of renew_ip.py *)

\* Optional[str]: None is {}, a string s is {s}
None == {}

RECURSIVE FirstAddress(_)
FirstAddress(lines) ==
    IF lines = <<>> THEN None
    ELSE LET line == Strip(Head(lines))
         IN  IF line = <<>> \/ StartsWith(line, <<"#">>)
             THEN FirstAddress(Tail(lines))
             ELSE IF StartsWith(line, <<"Address", "=">>)
             THEN {Split(line, "=")[2]}
             ELSE FirstAddress(Tail(lines))

get_current_ip(config) == FirstAddress(SplitLines(config))

\* the comparison made with the wrong candidate
get_new_ip_inverted(old_ip, ip_addr_1, ip_addr_2) ==
    IF old_ip = {ip_addr_1} THEN ip_addr_2 ELSE ip_addr_1

\* the old address never looked at
get_new_ip_second(old_ip, ip_addr_1, ip_addr_2) == ip_addr_2

get_new_ip(old_ip, ip_addr_1, ip_addr_2) ==
    IF old_ip = {ip_addr_2} THEN ip_addr_1 ELSE ip_addr_2

\* ip_with_mask.split('/')[0].split('.')
Octets(ip_with_mask) == Split(Split(ip_with_mask, "/")[1], ".")

get_new_gateway(ip_with_mask) ==
    LET parts == Octets(ip_with_mask)
    IN  Join(SubSeq(parts, 1, Len(parts) - 1), <<".">>) \o <<".", "1">>

\* the exception get_new_table raises, "" if none: [-2] needs two parts and
\* int() a decimal literal
get_new_table_raises(ip_with_mask) ==
    LET parts == Octets(ip_with_mask)
    IN  IF Len(parts) < 2 THEN "IndexError"
        ELSE IF ~IsInt(parts[Len(parts) - 1]) THEN "ValueError"
        ELSE ""

get_new_table(ip_with_mask) ==
    LET parts == Octets(ip_with_mask)
    IN  100 + ParseInt(parts[Len(parts) - 1])

RewriteLine(line, ip, gateway, table_num) ==
    IF StartsWith(line, <<"Address", "=">>) THEN <<"Address", "=">> \o ip
    ELSE IF StartsWith(line, <<"Gateway", "=">>) THEN <<"Gateway", "=">> \o gateway
    ELSE IF StartsWith(line, <<"Table", "=">>) THEN <<"Table", "=">> \o Str(table_num)
    ELSE IF StartsWith(line, <<"From", "=">>) THEN <<"From", "=">> \o ip
    ELSE line

rewrite_config_str(config, ip, gateway, table_num) ==
    LET lines == SplitLines(config)
        updated_lines == [i \in 1..Len(lines) |->
                            RewriteLine(lines[i], ip, gateway, table_num)]
    IN  Join(updated_lines, <<NL>>)

----------------------------------------------------------------------------
(* One run of the program: asyncio.run(main()) *)

\* the record of a run: the files it started from, and once it has ended
\* its tasks and the files it left
RunStarts(fs) ==
    [before |-> fs, tasks |-> <<>>, after |-> fs, finished |-> FALSE]

\* main() at its first line
Started ==
    /\ pcMain = "start"
    /\ exc = ""
    /\ idx = 1
    /\ processed_interfaces = <<>>
    /\ coroutines = <<>>
    /\ warnings = <<>>
    /\ tasks = <<>>

\* get_ip_addresses: the command exits non-zero (RuntimeError) or its stdout
\* is the listing
get_ip_addresses ==
    /\ loop = "running"
    /\ pcMain = "start"
    /\ \/ /\ pcMain' = "raised"
          /\ exc' = "RuntimeError"
       \/ /\ pcMain' = "gen"
          /\ exc' = exc
    /\ UNCHANGED <<listing, files, idx, processed_interfaces, coroutines,
                   warnings, tasks, loop, runs, history, call, ret>>

\* pts[1], pts[3] on a line of fewer than 4 words: IndexError leaves the
\* generator and main(), whose coroutines are never awaited
short_line_skipped ==
    /\ idx' = idx + 1
    /\ UNCHANGED <<pcMain, exc, processed_interfaces, coroutines, warnings>>

short_line_raises ==
    /\ pcMain' = "raised"
    /\ exc' = "IndexError"
    /\ UNCHANGED <<idx, processed_interfaces, coroutines, warnings>>

\* line 51: the interface is yielded when its list has grown to two addresses
YieldsFromTwoOn(ips) == Len(ips) >= 2

Yields(ips) == Len(ips) = 2

\* line 55: beyond two, a warning
Warns(ips) == Len(ips) > 2

\* double_interface_generator, one line of the listing, and main's append of
\* the coroutine for what it yields
double_interface_generator ==
    /\ loop = "running"
    /\ pcMain = "gen"
    /\ idx <= Len(listing)
    /\ LET pts == listing[idx] IN
       IF Len(pts) < 4
       THEN short_line_raises
       ELSE LET name == pts[2]
                ip == pts[4]
            IN  /\ idx' = idx + 1
                /\ UNCHANGED <<pcMain, exc>>
                /\ IF name \notin DOMAIN processed_interfaces
                   THEN /\ processed_interfaces' =
                              (name :> <<ip>>) @@ processed_interfaces
                        /\ UNCHANGED <<coroutines, warnings>>
                   ELSE LET ips == Append(processed_interfaces[name], ip) IN
                        /\ processed_interfaces' =
                              [processed_interfaces EXCEPT ![name] = ips]
                        /\ coroutines' =
                              IF Yields(ips)
                              THEN Append(coroutines,
                                          [interface_name |-> name,
                                           first_ip |-> ips[1],
                                           second_ip |-> ips[2]])
                              ELSE coroutines
                        /\ warnings' =
                              IF ~Yields(ips) /\ Warns(ips)
                              THEN Append(warnings, name)
                              ELSE warnings
    /\ UNCHANGED <<listing, files, tasks, loop, runs, history, call, ret>>

NewTask(c) ==
    [interface_name |-> c.interface_name, first_ip |-> c.first_ip,
     second_ip |-> c.second_ip, pc |-> "pending", conf |-> <<>>,
     real_ip |-> <<>>, new_config_str |-> <<>>, err |-> ""]

\* await asyncio.gather(*coroutines): every coroutine becomes a task and
\* main() waits; with no coroutine the result is ready at once
gather ==
    /\ loop = "running"
    /\ pcMain = "gen"
    /\ idx > Len(listing)
    /\ tasks' = [i \in 1..Len(coroutines) |-> NewTask(coroutines[i])]
    /\ pcMain' = "gather"
    /\ UNCHANGED <<listing, files, exc, idx, processed_interfaces, coroutines,
                   warnings, loop, runs, history, call, ret>>

Running(i) ==
    /\ loop = "running"
    /\ pcMain \in {"gather", "returned", "raised"}
    /\ i \in 1..Len(tasks)

\* a task ends with an exception; the first one to do so while main() waits
\* is the exception asyncio.gather hands to main()
Fail(i, e) ==
    /\ tasks' = [tasks EXCEPT ![i].pc = "failed", ![i].err = e]
    /\ exc' = IF pcMain = "gather" /\ exc = "" THEN e ELSE exc

\* change_config up to its first await, in read_config.  The loop runs the
\* tasks' first steps in the order gather created them.
change_config_start(i) ==
    /\ Running(i)
    /\ tasks[i].pc = "pending"
    /\ \A j \in 1..(i - 1) : tasks[j].pc # "pending"
    /\ tasks' = [tasks EXCEPT ![i].pc = "reading"]
    /\ UNCHANGED <<listing, files, pcMain, exc, idx, processed_interfaces,
                   coroutines, warnings, loop, runs, history, call, ret>>

\* the synchronous part of change_config, lines 218-222
change_config_derive(conf, first_ip, second_ip) ==
    LET old_ip == get_current_ip(conf)
        real_ip == get_new_ip(old_ip, first_ip, second_ip)
        real_gateway == get_new_gateway(real_ip)
        raises == get_new_table_raises(real_ip)
    IN  [real_ip |-> real_ip,
         raises |-> raises,
         new_config_str |->
            IF raises # "" THEN <<>>
            ELSE rewrite_config_str(conf, real_ip, real_gateway,
                                    get_new_table(real_ip))]

\* read_config returns or raises IOError; on a return change_config derives
\* the new configuration and waits in write_config
read_config_done(i) ==
    /\ Running(i)
    /\ tasks[i].pc = "reading"
    /\ \A j \in 1..Len(tasks) : tasks[j].pc # "pending"
    /\ \/ Fail(i, "IOError")
       \/ /\ tasks[i].interface_name \in DOMAIN files
          /\ LET conf == files[tasks[i].interface_name]
                 d == change_config_derive(conf, tasks[i].first_ip,
                                           tasks[i].second_ip)
             IN  IF d.raises # ""
                 THEN Fail(i, d.raises)
                 ELSE /\ tasks' = [tasks EXCEPT
                                     ![i].pc = "writing",
                                     ![i].conf = conf,
                                     ![i].real_ip = d.real_ip,
                                     ![i].new_config_str = d.new_config_str]
                      /\ exc' = exc
    /\ UNCHANGED <<listing, files, pcMain, idx, processed_interfaces,
                   coroutines, warnings, loop, runs, history, call, ret>>

\* write_config returns, the file holding config_str, or raises OSError, the
\* file as it was (open failed) or truncated by open(..., 'w')
write_config_done(i) ==
    /\ Running(i)
    /\ tasks[i].pc = "writing"
    /\ LET name == tasks[i].interface_name IN
       \/ /\ files' = [files EXCEPT ![name] = tasks[i].new_config_str]
          /\ tasks' = [tasks EXCEPT ![i].pc = "done"]
          /\ exc' = exc
       \/ /\ \E text \in {files[name], <<>>} :
                files' = [files EXCEPT ![name] = text]
          /\ Fail(i, "OSError")
    /\ UNCHANGED <<listing, pcMain, idx, processed_interfaces, coroutines,
                   warnings, loop, runs, history, call, ret>>

\* asyncio.gather's future is done: with the first exception of a task as
\* soon as there is one, else with the results once every task has returned
main_resumes ==
    /\ loop = "running"
    /\ pcMain = "gather"
    /\ \/ /\ exc # ""
          /\ pcMain' = "raised"
       \/ /\ exc = ""
          /\ \A i \in 1..Len(tasks) : tasks[i].pc = "done"
          /\ pcMain' = "returned"
    /\ UNCHANGED <<listing, files, exc, idx, processed_interfaces, coroutines,
                   warnings, tasks, loop, runs, history, call, ret>>

Unfinished(t) == t.pc \in {"pending", "reading", "writing"}

\* asyncio.run after main() has returned or raised: every task still running
\* is cancelled at its await, then the loop is closed.  A write that was
\* under way in the executor thread leaves the file as it was, truncated, or
\* written.
asyncio_run_exit ==
    /\ loop = "running"
    /\ pcMain \in {"returned", "raised"}
    /\ tasks' = [i \in 1..Len(tasks) |->
                    IF Unfinished(tasks[i])
                    THEN [tasks[i] EXCEPT !.pc = "cancelled",
                                          !.err = "CancelledError"]
                    ELSE tasks[i]]
    /\ \E left \in [{i \in 1..Len(tasks) : tasks[i].pc = "writing"} ->
                        {"kept", "truncated", "written"}] :
          files' = [n \in DOMAIN files |->
                      IF \E i \in DOMAIN left : tasks[i].interface_name = n
                      THEN LET i == CHOOSE k \in DOMAIN left :
                                        tasks[k].interface_name = n
                           IN  CASE left[i] = "kept" -> files[n]
                                 [] left[i] = "truncated" -> <<>>
                                 [] left[i] = "written" -> tasks[i].new_config_str
                      ELSE files[n]]
    /\ loop' = "closed"
    /\ history' = [history EXCEPT ![Len(history)] =
                        [before |-> @.before, tasks |-> tasks',
                         after |-> files', finished |-> TRUE]]
    /\ UNCHANGED <<listing, pcMain, exc, idx, processed_interfaces,
                   coroutines, warnings, runs, call, ret>>

\* the program is started again: same listing, the files as they were left
next_run ==
    /\ loop = "closed"
    /\ runs < MaxRuns
    /\ runs' = runs + 1
    /\ loop' = "running"
    /\ pcMain' = "start"
    /\ exc' = ""
    /\ idx' = 1
    /\ processed_interfaces' = <<>>
    /\ coroutines' = <<>>
    /\ warnings' = <<>>
    /\ tasks' = <<>>
    /\ history' = Append(history, RunStarts(files))
    /\ UNCHANGED <<listing, files, call, ret>>

----------------------------------------------------------------------------
(* Inputs of a run *)

Names == {"eth0", "eth1"}

IpA == <<"9", ".", "8", ".", "3", ".", "5", "/", "2", "4">>
IpB == <<"9", ".", "8", ".", "4", ".", "6", "/", "2", "4">>
IpC == <<"1", "0", ".", "0", ".", "1", "2", ".", "7", "/", "8">>
IpD == <<"1", "0", ".", "0", ".", "2", "5", "5", ".", "7", "/", "8">>
\* three octets, a third octet that is no number, no dot at all
Ip3 == <<"9", ".", "8", ".", "7", "/", "2", "4">>
IpX == <<"9", ".", "8", ".", "x", ".", "5", "/", "2", "4">>
Ip1 == <<"9", "/", "8">>

\* a line of `ip -4 -o a`, split: index, name, family, address, the rest
Line(name, ip) == <<"2:", name, "inet", ip, "brd">>

ShortLine == <<"2:", "eth0", "inet">>

\* all sequences of at most n elements of S
SeqsUpTo(S, n) == UNION {[1..k -> S] : k \in 0..n}

\* listings for the concurrent runs: every sequence of these lines
LineAlphabet ==
    {Line("eth0", IpA), Line("eth0", IpB), Line("eth1", IpC),
     Line("eth1", IpD), ShortLine}

Listings == SeqsUpTo(LineAlphabet, MaxLines)

K(word) == <<word, "=">>

FullConfig(ip, gw, table) ==
    Join(<<K("Address") \o ip, K("Gateway") \o gw, K("Table") \o table,
           K("From") \o ip>>, <<NL>>) \o <<NL>>

FewConfigs ==
    {FullConfig(IpB, <<"9", ".", "8", ".", "4", ".", "1">>, <<"1", "0", "4">>),
     FullConfig(IpC, <<"1", "0", ".", "0", ".", "1", "2", ".", "1">>,
                <<"1", "1", "2">>)}

\* the lines a generated configuration file is made of
CfgLineAlphabet ==
    {K("Address") \o IpA, K("Address") \o IpB, <<" ">> \o K("Address") \o IpA,
     K("Table") \o <<"1", "0", "4">>, <<"#">> \o K("Address") \o IpB, <<>>}

\* every file of at most MaxCfgLines of these lines, its last line ended by
\* a line break or not
GeneratedConfigs ==
    {Join(ls, <<NL>>) \o end :
        ls \in SeqsUpTo(CfgLineAlphabet, MaxCfgLines), end \in {<<>>, <<NL>>}}

\* the pairs of addresses an interface is seen with: distinct, equal, and
\* one of the two malformed
AddressPairs ==
    {<<IpA, IpB>>, <<IpB, IpA>>, <<IpA, IpA>>, <<Ip3, IpB>>, <<IpA, IpX>>,
     <<Ip1, IpB>>}

FirstRun ==
    /\ Started
    /\ loop = "running"
    /\ runs = 1
    /\ history = <<RunStarts(files)>>
    /\ call = [fn |-> "none"]
    /\ ret = <<>>

\* two interfaces, any listing of the line alphabet, each file missing or one
\* of a few
Init ==
    /\ listing \in Listings
    /\ \E present \in SUBSET Names : files \in [present -> FewConfigs]
    /\ FirstRun

\* one interface seen with two addresses, its file any generated one
InitRepeated ==
    /\ \E p \in AddressPairs :
          listing = <<Line("eth0", p[1]), Line("eth0", p[2])>>
    /\ \E c \in GeneratedConfigs : files = ("eth0" :> c)
    /\ FirstRun

\* one run of the program
Next ==
    \/ get_ip_addresses
    \/ double_interface_generator
    \/ gather
    \/ \E i \in 1..Len(tasks) : change_config_start(i)
    \/ \E i \in 1..Len(tasks) : read_config_done(i)
    \/ \E i \in 1..Len(tasks) : write_config_done(i)
    \/ main_resumes
    \/ asyncio_run_exit

Spec == Init /\ [][Next]_vars

\* the program started again and again
NextRepeated == Next \/ next_run

SpecRepeated == InitRepeated /\ [][NextRepeated]_vars

----------------------------------------------------------------------------
(* Direct calls of the pure functions *)

\* all texts of at most n tokens over the alphabet
Texts(alphabet, n) == SeqsUpTo(alphabet, n)

DocAlphabet == {"Address", "Gateway", "Table", "From", "=", "x", " ", "#", NL}

Docs == Texts(DocAlphabet, MaxDocLen)

\* (ip, gateway, table_num) arguments: one as change_config derives them,
\* one unrelated
Derived == {[ip |-> <<"9", ".", "5">>, gateway |-> <<"9", ".", "1">>, table_num |-> 100],
            [ip |-> <<"x">>, gateway |-> <<>>, table_num |-> 355]}

Candidates == {<<"9", ".", "5">>, <<"9", ".", "6">>, <<"x">>, <<>>}

Calls ==
    {[fn |-> "get_new_ip", old_ip |-> o, ip_addr_1 |-> a, ip_addr_2 |-> b] :
        o \in {None} \cup {{c} : c \in Candidates},
        a \in Candidates, b \in Candidates}
    \cup
    {[fn |-> "rewrite_config_str", config |-> c, derived |-> d] :
        c \in Docs, d \in Derived}

InitPure ==
    /\ call \in Calls
    /\ ret = <<>>
    /\ listing = <<>>
    /\ files = <<>>
    /\ Started
    /\ loop = "closed"
    /\ runs = 0
    /\ history = <<>>

CallGetNewIp ==
    /\ call.fn = "get_new_ip"
    /\ ret = <<>>
    /\ ret' = <<get_new_ip(call.old_ip, call.ip_addr_1, call.ip_addr_2)>>
    /\ UNCHANGED <<call, runVars>>

\* rewrite_config_str applied to the document, and then to its own output
CallRewrite ==
    /\ call.fn = "rewrite_config_str"
    /\ Len(ret) < 2
    /\ LET d == call.derived
           arg == IF ret = <<>> THEN call.config ELSE ret[Len(ret)]
       IN  ret' = Append(ret, rewrite_config_str(arg, d.ip, d.gateway, d.table_num))
    /\ UNCHANGED <<call, runVars>>

NextPure == CallGetNewIp \/ CallRewrite

SpecPure == InitPure /\ [][NextPure]_vars

----------------------------------------------------------------------------
(* The claims *)

\* the files the current run started from
Before == history[Len(history)].before

Min(S) == CHOOSE k \in S : \A j \in S : k <= j

\* what one task of a run that read conf would write
Rewritten(t, conf) ==
    change_config_derive(conf, t.first_ip, t.second_ip).new_config_str

CanSucceed(t, fs) ==
    /\ t.interface_name \in DOMAIN fs
    /\ change_config_derive(fs[t.interface_name], t.first_ip,
                            t.second_ip).raises = ""

\* C1: in a run with two tasks in which read_config fails for one while the
\* other's read, derivation and write do not fail, the run ends with the
\* other interface's file holding its rewritten configuration.
C1_IsolationUnderPartialFailure ==
    (loop = "closed" /\ Len(tasks) = 2) =>
        \A i \in 1..2 : \A j \in 1..2 :
            ( /\ i # j
              /\ tasks[i].pc = "failed" /\ tasks[i].err = "IOError"
              /\ tasks[j].pc \in {"done", "cancelled"}
              /\ CanSucceed(tasks[j], Before) )
            => files[tasks[j].interface_name] =
                   Rewritten(tasks[j], Before[tasks[j].interface_name])

\* C2: main() has returned or raised only when every task asyncio.gather
\* launched has ended.
C2_MainEndsAfterAllTasks ==
    pcMain \in {"returned", "raised"} =>
        \A i \in 1..Len(tasks) : ~Unfinished(tasks[i])

\* the lines among the first k that name interface n, in listing order
Occurrences(n, k) == {i \in 1..k : listing[i][2] = n}

RECURSIVE Sorted(_)
Sorted(S) == IF S = {} THEN <<>> ELSE <<Min(S)>> \o Sorted(S \ {Min(S)})

Count(seq, P(_)) == Cardinality({i \in 1..Len(seq) : P(seq[i])})

\* C3: after any number of well-formed lines, the generator has yielded, for
\* each interface, one task (name, first address, second address) if the
\* interface appeared on two lines or more and none otherwise, and has warned
\* once for each appearance beyond the second.  Holding after every line, this
\* makes the task appear with the line that is the second appearance.
C3_OneTaskPerInterface ==
    \A n \in Names :
        LET occ == Sorted(Occurrences(n, idx - 1))
            IsN(c) == c.interface_name = n
            WarnsN(w) == w = n
        IN  /\ Count(coroutines, IsN) = IF Len(occ) >= 2 THEN 1 ELSE 0
            /\ Len(occ) >= 2 =>
                  \E p \in 1..Len(coroutines) :
                      coroutines[p] = [interface_name |-> n,
                                       first_ip |-> listing[occ[1]][4],
                                       second_ip |-> listing[occ[2]][4]]
            /\ Count(warnings, WarnsN) =
                  IF Len(occ) > 2 THEN Len(occ) - 2 ELSE 0

\* an interface on three lines of a well-formed listing read to its end
C3_Witness ==
    /\ pcMain = "gather"
    /\ \E n \in Names : Cardinality(Occurrences(n, Len(listing))) >= 3
    /\ Len(coroutines) = 1
    /\ Len(warnings) >= 1

HasShortLine == \E k \in 1..Len(listing) : Len(listing[k]) < 4

\* C4: when the listing command fails, or the listing has a line of fewer
\* than 4 words anywhere, no task is ever launched, no file changes, main()
\* neither waits for tasks nor returns, and the run ends with main() raising.
C4_FetchErrorAbortsRun ==
    (exc = "RuntimeError" \/ HasShortLine) =>
        /\ tasks = <<>>
        /\ files = Before
        /\ pcMain \notin {"gather", "returned"}
        /\ loop = "closed" => pcMain = "raised"

\* a short line after the lines that made a coroutine: the run has ended
C4_Witness ==
    /\ loop = "closed"
    /\ exc = "IndexError"
    /\ coroutines # <<>>
    /\ idx > 2

\* the claim's own derivations: mask stripped, last octet replaced by 1;
\* 100 plus the third octet
ClaimGateway(ip) ==
    LET parts == Split(Split(ip, "/")[1], ".")
    IN  Join([parts EXCEPT ![Len(parts)] = <<"1">>], <<".">>)

ClaimTable(ip) == 100 + ParseInt(Split(Split(ip, "/")[1], ".")[3])

ClaimLine(line, new) ==
    CASE StartsWith(line, K("Address")) -> K("Address") \o new
      [] StartsWith(line, K("From")) -> K("From") \o new
      [] StartsWith(line, K("Gateway")) -> K("Gateway") \o ClaimGateway(new)
      [] StartsWith(line, K("Table")) -> K("Table") \o Str(ClaimTable(new))
      [] OTHER -> line

\* C5: a task that has succeeded for an interface seen with two addresses, of
\* which the file it read recorded one, has left a file with the same lines,
\* except that Address= and From= lines hold the other address, Gateway=
\* lines its gateway and Table= lines its table.
C5_EndToEnd ==
    \A i \in 1..Len(tasks) :
        LET t == tasks[i]
            old == get_current_ip(t.conf)
            new == IF old = {t.first_ip} THEN t.second_ip ELSE t.first_ip
            was == SplitLines(t.conf)
            now == SplitLines(files[t.interface_name])
        IN  ( /\ t.pc = "done"
              /\ t.first_ip # t.second_ip
              /\ old \in {{t.first_ip}, {t.second_ip}} )
            => /\ Len(now) = Len(was)
               /\ \A k \in 1..Len(was) : now[k] = ClaimLine(was[k], new)

\* C9: a task whose selected address has not exactly four dot-separated
\* octets fails in the derivation: it never gets to write_config.
C9_MalformedAddressFails ==
    \A i \in 1..Len(tasks) :
        tasks[i].pc \in {"writing", "done"} =>
            Len(Split(Split(tasks[i].real_ip, "/")[1], ".")) = 4

\* the lines get_current_ip would take the address from
AddressLines(config) ==
    LET lines == SplitLines(config)
    IN  {k \in 1..Len(lines) : StartsWith(Strip(lines[k]), K("Address"))}

\* the line get_current_ip reads is an unindented Address= line
UnindentedAddress(config) ==
    /\ AddressLines(config) # {}
    /\ StartsWith(SplitLines(config)[Min(AddressLines(config))], K("Address"))

C6_GetNewIp ==
    (call.fn = "get_new_ip" /\ ret # <<>>) =>
        /\ call.old_ip = {call.ip_addr_2} => ret[1] = call.ip_addr_1
        /\ call.old_ip # {call.ip_addr_2} => ret[1] = call.ip_addr_2

\* the old address equal to neither of two distinct candidates
C6_Witness ==
    /\ call.fn = "get_new_ip"
    /\ ret # <<>>
    /\ call.ip_addr_1 # call.ip_addr_2
    /\ call.old_ip \notin {None, {call.ip_addr_1}, {call.ip_addr_2}}
    /\ ret[1] = call.ip_addr_2

Keys == {K("Address"), K("Gateway"), K("Table"), K("From")}

IsField(line) == \E key \in Keys : StartsWith(line, key)

\* C7: the output of rewrite_config_str has as many lines as its input,
\* every line that starts with none of the four keys is the input's line at
\* that position, and no key absent from the input appears in the output.
C7_RewritePreservesFrame ==
    (call.fn = "rewrite_config_str" /\ ret # <<>>) =>
        LET was == SplitLines(call.config)
            now == SplitLines(ret[1])
        IN  /\ Len(now) = Len(was)
            /\ \A k \in 1..Len(was) : ~IsField(was[k]) => now[k] = was[k]
            /\ \A key \in Keys :
                  (\E k \in 1..Len(now) : StartsWith(now[k], key)) =>
                  (\E k \in 1..Len(was) : StartsWith(was[k], key))

\* C8: rewrite_config_str applied to its own output, with the same derived
\* values, returns that output.
C8_RewriteIdempotent ==
    (call.fn = "rewrite_config_str" /\ Len(ret) = 2) => ret[2] = ret[1]

====
